---- MODULE Spec2Model ----
(***************************************************************************)
(* A model of src/src/main.rs: the tokenizer (lex), the syntax nodes, the  *)
(* environments and the parser (parse_expr) of the ndc front end.          *)
(*                                                                         *)
(* Conventions.                                                            *)
(*  - A byte is a natural number 0..255; a buffer (&[u8]) is a sequence of *)
(*    bytes.  Rust offsets are 0-based: source[i] is src[i + 1] here.      *)
(*  - A String is the sequence of the bytes of its UTF-8 encoding.         *)
(*  - Option<T> is a sequence of length at most one: None is << >> and     *)
(*    Some(x) is << x >>.                                                  *)
(*  - An i64 is kept exactly, as a sign and the decimal digits of its      *)
(*    magnitude (TLC's own integers are 32 bits wide): see I64.            *)
(***************************************************************************)
EXTENDS Integers, Sequences, FiniteSets, TLC

VARIABLES
    source,         \* the buffer handed to lex / parse_integer / parse_expr
    pc,             \* position inside the running function
    current_token,  \* Token { beginning, end }
    end_out,        \* parse_expr's `end: &mut usize`
    result,         \* the caller's `result: &mut Node`
    err,            \* the `err` local of parse_expr / the Error lex returned
    symbol,         \* Option: the `symbol` local of parse_expr
    context,        \* ParsingContextStruct { types, variables }
    stdout,         \* what print!/println! wrote, one entry per line
    lex_start,      \* the `start` argument of the latest lex call
    lex_calls,      \* how many lex calls were made so far
    env,            \* the Environment the environment_* calls act on
    status,         \* the i32 the latest call returned
    call,           \* the latest call: its name, arguments and state before it
    tokens,         \* the spans the tokenizing loop got from lex, in order
    sets,           \* the (id, value) pairs environment_set bound in env, in order
    env_calls       \* how many environment_* calls were made so far

vars == << source, pc, current_token, end_out, result, err, symbol, context,
           stdout, lex_start, lex_calls, env, status, call, tokens, sets,
           env_calls >>

None == << >>
Some(x) == << x >>

(***************************************************************************)
(* Bounds of the model.                                                    *)
(***************************************************************************)
\* parse_expr's buffers are concatenations of at most MaxPieces pieces.
MaxPieces == 4
\* Termination is verified for parse_expr on at most MaxFairPieces pieces.
MaxFairPieces == 3
\* lex's buffers hold at most MaxLexLen bytes.
MaxLexLen == 3
\* parse_integer's short tokens hold at most MaxTokLen bytes.
MaxTokLen == 3
\* The environment specification makes at most MaxOps calls.
MaxOps == 3

(***************************************************************************)
(* Errors.                                                                 *)
(***************************************************************************)
ErrorType == { "ERROR_NONE", "ERROR_ARGUMENTS", "ERROR_TYPE", "ERROR_GENERIC",
               "ERROR_SYNTAX", "ERROR_TODO" }

ok == [ type_ |-> "ERROR_NONE", msg |-> None ]

\* The two message literals of the code, as the bytes of their text.
\* "Can not lex empty source" followed by a full stop
STR_CAN_NOT_LEX ==
    << 67, 97, 110, 32, 110, 111, 116, 32, 108, 101, 120, 32, 101, 109, 112,
       116, 121, 32, 115, 111, 117, 114, 99, 101, 46 >>
\* "Invalid type within variable declaration"
STR_INVALID_TYPE ==
    << 73, 110, 118, 97, 108, 105, 100, 32, 116, 121, 112, 101, 32, 119, 105,
       116, 104, 105, 110, 32, 118, 97, 114, 105, 97, 98, 108, 101, 32, 100,
       101, 99, 108, 97, 114, 97, 116, 105, 111, 110 >>

error_prep(e, kind, message) == [ e EXCEPT !.type_ = kind, !.msg = Some(message) ]

(***************************************************************************)
(* The tokenizer.                                                          *)
(***************************************************************************)
WHITESPACE == { 32, 13, 10 }                      \* b" \r\n"
DELIMITERS == { 32, 13, 10, 44, 40, 41, 58 }      \* b" \r\n,():"

Token(b, e) == [ beginning |-> b, end |-> e ]

\* while token.beginning < source.len() && WHITESPACE.contains(..) { += 1 }
RECURSIVE lex_skip(_, _)
lex_skip(src, b) ==
    IF b < Len(src) /\ src[b + 1] \in WHITESPACE
    THEN lex_skip(src, b + 1)
    ELSE b

\* while token.end < source.len() && !DELIMITERS.contains(..) && .. != 0 { += 1 }
RECURSIVE lex_scan(_, _)
lex_scan(src, e) ==
    IF e < Len(src) /\ src[e + 1] \notin DELIMITERS /\ src[e + 1] # 0
    THEN lex_scan(src, e + 1)
    ELSE e

\* A lex that takes a start at the very end of the buffer for an error
\* (start >= source.len() where the code tests start > source.len()).
lex_rejects_end(src, start, token) ==
    IF start >= Len(src)
    THEN [ err   |-> error_prep(ok, "ERROR_ARGUMENTS", STR_CAN_NOT_LEX),
           token |-> token ]
    ELSE LET b == lex_skip(src, start)
             e == lex_scan(src, b)
         IN  IF b >= Len(src) \/ src[b + 1] = 0
             THEN [ err |-> ok, token |-> Token(b, b) ]
             ELSE [ err |-> ok, token |-> Token(b, IF e = b THEN e + 1 ELSE e) ]

\* A lex that skips a delimiter instead of returning it as a token.
lex_drops_delimiter(src, start, token) ==
    IF start > Len(src)
    THEN [ err   |-> error_prep(ok, "ERROR_ARGUMENTS", STR_CAN_NOT_LEX),
           token |-> token ]
    ELSE LET b == lex_skip(src, start)
             e == lex_scan(src, b)
         IN  IF b >= Len(src) \/ src[b + 1] = 0
             THEN [ err |-> ok, token |-> Token(b, b) ]
             ELSE IF e = b
                  THEN [ err |-> ok, token |-> Token(b + 1, lex_scan(src, b + 1)) ]
                  ELSE [ err |-> ok, token |-> Token(b, e) ]

\* lex(source, start, token): the Error returned and the token left behind.
lex(src, start, token) ==
    IF start > Len(src)
    THEN [ err   |-> error_prep(ok, "ERROR_ARGUMENTS", STR_CAN_NOT_LEX),
           token |-> token ]
    ELSE LET b == lex_skip(src, start)
         IN  IF b >= Len(src)
             THEN [ err |-> ok, token |-> Token(b, b) ]
             ELSE IF src[b + 1] = 0
                  THEN [ err |-> ok, token |-> Token(b, b) ]
                  ELSE LET e == lex_scan(src, b)
                       IN  [ err   |-> ok,
                             token |-> Token(b, IF e = b THEN e + 1 ELSE e) ]

\* &source[a..b]
Slice(src, a, b) == [ i \in 1..(b - a) |-> src[a + i] ]

(***************************************************************************)
(* integer_t = i64, kept exactly: neg is the sign and mag the decimal      *)
(* digits of the magnitude, most significant first, without leading zeros  *)
(* (zero is the empty sequence of digits, and is never negative).          *)
(***************************************************************************)
I64(neg, mag) == [ neg |-> neg /\ mag # << >>, mag |-> mag ]

I64Zero == I64(FALSE, << >>)

\* i64::MAX = 9223372036854775807 and the magnitude of i64::MIN.
I64MaxMag == << 9,2,2,3,3,7,2,0,3,6,8,5,4,7,7,5,8,0,7 >>
I64MinMag == << 9,2,2,3,3,7,2,0,3,6,8,5,4,7,7,5,8,0,8 >>

\* a > b for two magnitudes.
MagGreater(a, b) ==
    \/ Len(a) > Len(b)
    \/ /\ Len(a) = Len(b)
       /\ \E i \in 1..Len(a) :
            /\ a[i] > b[i]
            /\ \A j \in 1..(i - 1) : a[j] = b[j]

RECURSIVE StripZeros(_)
StripZeros(ds) ==
    IF ds # << >> /\ Head(ds) = 0 THEN StripZeros(Tail(ds)) ELSE ds

IsDigit(b) == b \in 48..57

(***************************************************************************)
(* The two library conversions the code calls.  The model's buffers hold   *)
(* ASCII bytes and the byte 0xFF only; 0xFF belongs to no well-formed      *)
(* UTF-8 sequence, so String::from_utf8_lossy turns each one into U+FFFD   *)
(* (EF BF BD) and std::str::from_utf8 rejects a slice that holds one.      *)
(***************************************************************************)
REPLACEMENT_CHARACTER == << 239, 191, 189 >>

RECURSIVE from_utf8_lossy(_)
from_utf8_lossy(bytes) ==
    IF bytes = << >>
    THEN << >>
    ELSE (IF Head(bytes) < 128 THEN << Head(bytes) >> ELSE REPLACEMENT_CHARACTER)
         \o from_utf8_lossy(Tail(bytes))

str_from_utf8(bytes) ==
    IF \A i \in 1..Len(bytes) : bytes[i] < 128 THEN Some(bytes) ELSE None

\* The parse the numeric literal rule describes: as str_parse_i64, but a
\* value outside the i64 range is clamped to the nearer end of the range.
str_parse_i64_saturating(s) ==
    LET signed == s # << >> /\ s[1] \in { 43, 45 }
        digits == IF signed THEN Tail(s) ELSE s
        mag    == StripZeros([ i \in 1..Len(digits) |-> digits[i] - 48 ])
        neg    == signed /\ s[1] = 45
    IN  IF digits = << >> \/ \E i \in 1..Len(digits) : ~IsDigit(digits[i])
        THEN None
        ELSE IF neg
             THEN Some(I64(TRUE, IF MagGreater(mag, I64MinMag) THEN I64MinMag ELSE mag))
             ELSE Some(I64(FALSE, IF MagGreater(mag, I64MaxMag) THEN I64MaxMag ELSE mag))

\* str::parse::<i64>(): an optional '+' or '-', then one or more decimal
\* digits; Err (None here) for anything else and for a value outside i64.
str_parse_i64(s) ==
    LET signed == s # << >> /\ s[1] \in { 43, 45 }
        digits == IF signed THEN Tail(s) ELSE s
        mag    == StripZeros([ i \in 1..Len(digits) |-> digits[i] - 48 ])
        neg    == signed /\ s[1] = 45
    IN  IF digits = << >> \/ \E i \in 1..Len(digits) : ~IsDigit(digits[i])
        THEN None
        ELSE IF MagGreater(mag, IF neg THEN I64MinMag ELSE I64MaxMag)
             THEN None
             ELSE Some(I64(neg, mag))

(***************************************************************************)
(* Syntax nodes.  children and next_child are the owned links of the code. *)
(***************************************************************************)
NodeType == { "NODE_TYPE_NONE", "NODE_TYPE_INTEGER", "NODE_TYPE_SYMBOL",
              "NODE_TYPE_VARIABLE_DECLARATION",
              "NODE_TYPE_VARIABLE_DECLARATION_INITIALIZED",
              "NODE_TYPE_BINARY_OPERATOR", "NODE_TYPE_PROGRAM" }

node_allocate ==
    [ type_      |-> "NODE_TYPE_NONE",
      value      |-> [ integer |-> I64Zero, symbol |-> None ],
      children   |-> None,
      next_child |-> None ]

nonep(node) == node.type_ = "NODE_TYPE_NONE"

\* The walk of node_add_child along the next_child links.
RECURSIVE append_sibling(_, _)
append_sibling(child, new_child) ==
    IF child.next_child = None
    THEN [ child EXCEPT !.next_child = Some(new_child) ]
    ELSE [ child EXCEPT !.next_child =
                            Some(append_sibling(child.next_child[1], new_child)) ]

\* A node_add_child that puts the new child in front of the others.
node_add_child_front(parent, new_child) ==
    [ parent EXCEPT !.children =
          Some([ new_child EXCEPT !.next_child = parent.children ]) ]

node_add_child(parent, new_child) ==
    IF parent.children = None
    THEN [ parent EXCEPT !.children = Some(new_child) ]
    ELSE [ parent EXCEPT !.children =
                             Some(append_sibling(parent.children[1], new_child)) ]

\* node_compare(a: Option<&Node>, b: Option<&Node>) -> i32
node_compare(a, b) ==
    IF a = None \/ b = None
    THEN (IF a = None /\ b = None THEN 1 ELSE 0)
    ELSE LET x == a[1]
             y == b[1]
         IN  IF x.type_ # y.type_ THEN 0
             ELSE CASE x.type_ = "NODE_TYPE_NONE" ->
                         (IF nonep(y) THEN 1 ELSE 0)
                    [] x.type_ = "NODE_TYPE_INTEGER" ->
                         (IF x.value.integer = y.value.integer THEN 1 ELSE 0)
                    [] x.type_ = "NODE_TYPE_SYMBOL" ->
                         (IF x.value.symbol = y.value.symbol THEN 1 ELSE 0)
                    [] OTHER -> 0

node_integer(v) ==
    [ node_allocate EXCEPT !.type_ = "NODE_TYPE_INTEGER", !.value.integer = v ]

node_symbol(symbol_string) ==
    [ node_allocate EXCEPT !.type_ = "NODE_TYPE_SYMBOL",
                           !.value.symbol = Some(symbol_string) ]

node_symbol_from_buffer(buffer) ==
    [ node_allocate EXCEPT !.type_ = "NODE_TYPE_SYMBOL",
                           !.value.symbol = Some(from_utf8_lossy(buffer)) ]

(***************************************************************************)
(* Environments: a chain of bindings, newest first, and an optional parent.*)
(***************************************************************************)
Binding(id, value, next) == [ id |-> id, value |-> value, next |-> next ]

environment_create(parent) == [ parent |-> parent, bind |-> None ]

\* The bindings of a chain, front to back.
RECURSIVE BindingList(_)
BindingList(bind) ==
    IF bind = None
    THEN << >>
    ELSE << [ id |-> bind[1].id, value |-> bind[1].value ] >>
         \o BindingList(bind[1].next)

\* The scan of environment_set: Some(the chain with the value of the first
\* binding whose id compares equal to id overwritten), or None when no
\* binding matches.
RECURSIVE set_scan(_, _, _)
set_scan(bind, id, value) ==
    IF bind = None
    THEN None
    ELSE IF node_compare(Some(bind[1].id), Some(id)) # 0
         THEN Some(Some([ bind[1] EXCEPT !.value = value ]))
         ELSE LET rest == set_scan(bind[1].next, id, value)
              IN  IF rest = None
                  THEN None
                  ELSE Some(Some([ bind[1] EXCEPT !.next = rest[1] ]))

\* The end of a chain with one more binding behind it.
RECURSIVE chain_append(_, _)
chain_append(bind, b) ==
    IF bind = None
    THEN Some(b)
    ELSE Some([ bind[1] EXCEPT !.next = chain_append(bind[1].next, b) ])

\* An environment_set that puts a new binding behind the others.
environment_set_back(e, id, value) ==
    IF id.type_ = "NODE_TYPE_NONE" /\ value.type_ = "NODE_TYPE_NONE"
    THEN [ status |-> 0, env |-> e ]
    ELSE LET over == set_scan(e.bind, id, value)
         IN  IF over # None
             THEN [ status |-> 2, env |-> [ e EXCEPT !.bind = over[1] ] ]
             ELSE [ status |-> 1,
                    env    |-> [ e EXCEPT !.bind =
                                     chain_append(e.bind, Binding(id, value, None)) ] ]

\* environment_set(env, id, value): the i32 returned and the environment after.
environment_set(e, id, value) ==
    IF id.type_ = "NODE_TYPE_NONE" /\ value.type_ = "NODE_TYPE_NONE"
    THEN [ status |-> 0, env |-> e ]
    ELSE LET over == set_scan(e.bind, id, value)
         IN  IF over # None
             THEN [ status |-> 2, env |-> [ e EXCEPT !.bind = over[1] ] ]
             ELSE [ status |-> 1,
                    env    |-> [ e EXCEPT !.bind = Some(Binding(id, value, e.bind)) ] ]

\* The scan of environment_get along one chain.
RECURSIVE get_scan(_, _)
get_scan(bind, id) ==
    IF bind = None
    THEN None
    ELSE IF node_compare(Some(bind[1].id), Some(id)) # 0
         THEN Some(bind[1].value)
         ELSE get_scan(bind[1].next, id)

\* An environment_get that goes on to the parent environments on a miss.
RECURSIVE environment_get_chain(_, _, _)
environment_get_chain(e, id, res) ==
    LET hit == get_scan(e.bind, id)
    IN  IF hit # None
        THEN [ status |-> 1, result |-> hit[1] ]
        ELSE IF e.parent = None
             THEN [ status |-> 0, result |-> res ]
             ELSE environment_get_chain(e.parent[1], id, res)

\* environment_get(env, id, result): the i32 returned and *result after.
environment_get(e, id, res) ==
    LET hit == get_scan(e.bind, id)
    IN  IF hit # None
        THEN [ status |-> 1, result |-> hit[1] ]
        ELSE [ status |-> 0, result |-> res ]

(***************************************************************************)
(* The parser's helpers.                                                   *)
(***************************************************************************)
\* The comparison loop of token_string_equalp, from index i of the string.
RECURSIVE equalp_scan(_, _, _, _, _)
equalp_scan(bytes, i, beg, token, src) ==
    IF i < Len(bytes) /\ beg < token.end
    THEN IF beg >= Len(src) THEN 0
         ELSE IF bytes[i + 1] # src[beg + 1] THEN 0
         ELSE equalp_scan(bytes, i + 1, beg + 1, token, src)
    ELSE 1

token_string_equalp(string, token, src) ==
    IF string = << >> THEN 1 ELSE equalp_scan(string, 0, token.beginning, token, src)

\* parse_integer(source, token, node): the i32 returned and *node after.
parse_integer(src, token, node) ==
    IF token.end <= token.beginning \/ token.end > Len(src)
    THEN [ status |-> 0, node |-> node ]
    ELSE LET token_slice == Slice(src, token.beginning, token.end)
         IN  IF Len(token_slice) = 1 /\ token_slice[1] = 48
             THEN [ status |-> 1,
                    node   |-> [ node EXCEPT !.type_ = "NODE_TYPE_INTEGER",
                                             !.value.integer = I64Zero ] ]
             ELSE IF str_from_utf8(token_slice) # None
                  THEN LET parsed == str_parse_i64(token_slice)
                       IN  IF parsed # None
                           THEN IF parsed[1] = I64Zero
                                THEN [ status |-> 0, node |-> node ]
                                ELSE [ status |-> 1,
                                       node   |-> [ node EXCEPT
                                                      !.type_ = "NODE_TYPE_INTEGER",
                                                      !.value.integer = parsed[1] ] ]
                           ELSE [ status |-> 0, node |-> node ]
                  ELSE [ status |-> 0, node |-> node ]

\* "integer" and ":" as Rust string literals.
STR_INTEGER == << 105, 110, 116, 101, 103, 101, 114 >>
STR_COLON == << 58 >>

\* parse_context_create(): both environments empty, then "integer" bound to
\* Integer(0) in types.
parse_context_create ==
    [ types     |-> environment_set(environment_create(None),
                                    node_symbol(STR_INTEGER),
                                    node_integer(I64Zero)).env,
      variables |-> environment_create(None) ]

\* What print_token(source, t) writes.
print_token(src, t) ==
    IF t.beginning >= t.end \/ t.end > Len(src)
    THEN << >>
    ELSE from_utf8_lossy(Slice(src, t.beginning, t.end))

\* current_token.end.saturating_sub(current_token.beginning)
token_length(t) == IF t.end >= t.beginning THEN t.end - t.beginning ELSE 0

(***************************************************************************)
(* The buffers parse_expr is run on: every concatenation of at most        *)
(* MaxPieces of these pieces.  parse_expr takes any &[u8]; main hands it   *)
(* the bytes of a file followed by a zero byte, which is one of the pieces.*)
(***************************************************************************)
Pieces ==
    { << 65 >>,          \* "A"
      STR_COLON,         \* ":"
      STR_INTEGER,       \* "integer"
      << 32 >>,          \* " "
      << 44 >>,          \* ","
      << 55 >>,          \* "7"
      << 48 >>,          \* "0"
      << 0 >>,           \* the zero byte
      << 255 >> }        \* a byte that is not UTF-8

RECURSIVE Concats(_)
Concats(n) ==
    IF n = 0
    THEN { << >> }
    ELSE LET shorter == Concats(n - 1)
         IN  shorter \cup { p \o q : p \in shorter, q \in Pieces }

ParseBuffers == Concats(MaxPieces)
FairBuffers == Concats(MaxFairPieces)

NoCall ==
    [ fn |-> "none", id |-> node_allocate, value |-> node_allocate,
      env_before |-> environment_create(None), result_before |-> node_allocate ]

(***************************************************************************)
(* main: parse_context_create(), an expression node of type None, then     *)
(* parse_expr(&mut context, &contents, &mut contents_it, &mut expression). *)
(***************************************************************************)
Init ==
    /\ source = << >>
    /\ pc = "start"
    /\ current_token = Token(0, 0)
    /\ end_out = 0
    /\ result = node_allocate
    /\ err = ok
    /\ symbol = None
    /\ context = parse_context_create
    /\ stdout = << >>
    /\ lex_start = 0
    /\ lex_calls = 0
    /\ env = environment_create(None)
    /\ status = 0
    /\ call = NoCall
    /\ tokens = << >>
    /\ sets = << >>
    /\ env_calls = 0

\* The call parse_expr(&mut context, source, ..) on one of the buffers.
ParseEnter(buffers) ==
    /\ pc = "start"
    /\ \E s \in buffers : source' = s
    /\ pc' = "loop"
    /\ UNCHANGED << current_token, end_out, result, err, symbol, context, stdout,
                    lex_start, lex_calls, env, status, call,
                    tokens, sets, env_calls >>

\* The top of the loop: lex, then parse_integer decides the branch.
ParseLoop ==
    /\ pc = "loop"
    /\ \E r \in { lex(source, current_token.end, current_token) } :
       \E pi \in { parse_integer(source, r.token, result) } :
       LET tok == r.token
       IN  /\ lex_start' = current_token.end
           /\ lex_calls' = lex_calls + 1
           /\ current_token' = tok
           /\ err' = r.err
           /\ IF r.err.type_ # "ERROR_NONE"
              THEN /\ pc' = "done"
                   /\ UNCHANGED << end_out, result, symbol >>
              ELSE /\ end_out' = tok.end
                   /\ IF token_length(tok) = 0
                      THEN /\ pc' = "done"
                           /\ UNCHANGED << result, symbol >>
                      ELSE IF pi.status # 0
                           THEN /\ pc' = "lookahead"
                                /\ result' = pi.node
                                /\ UNCHANGED symbol
                           ELSE /\ pc' = "symbol_next"
                                /\ result' = pi.node
                                /\ symbol' = Some(node_symbol_from_buffer(
                                       Slice(source, tok.beginning,
                                             tok.beginning + token_length(tok))))
    /\ UNCHANGED << source, context, stdout, env, status, call,
                    tokens, sets, env_calls >>

\* The integer branch: one token of lookahead, then back to the top.
ParseLookahead ==
    /\ pc = "lookahead"
    /\ \E r \in { lex(source, current_token.end, current_token) } :
       LET tok == r.token
       IN  /\ lex_start' = current_token.end
           /\ lex_calls' = lex_calls + 1
           /\ current_token' = tok
           /\ err' = r.err
           /\ IF r.err.type_ # "ERROR_NONE"
              THEN /\ pc' = "done"
                   /\ UNCHANGED << end_out, stdout >>
              ELSE /\ end_out' = tok.end
                   /\ stdout' = Append(stdout, << "Intermediate node: ", result >>)
                   /\ pc' = "loop"
    /\ UNCHANGED << source, result, symbol, context, env, status, call,
                    tokens, sets, env_calls >>

\* The symbol branch: the token after the symbol.
ParseSymbolNext ==
    /\ pc = "symbol_next"
    /\ \E r \in { lex(source, current_token.end, current_token) } :
       LET tok == r.token
       IN  /\ lex_start' = current_token.end
           /\ lex_calls' = lex_calls + 1
           /\ current_token' = tok
           /\ err' = r.err
           /\ IF r.err.type_ # "ERROR_NONE"
              THEN /\ pc' = "done"
                   /\ UNCHANGED << end_out, stdout >>
              ELSE /\ end_out' = tok.end
                   /\ IF token_length(tok) = 0
                      THEN /\ pc' = "done"
                           /\ UNCHANGED stdout
                      ELSE IF token_string_equalp(STR_COLON, tok, source) # 0
                           THEN /\ pc' = "decl_type"
                                /\ UNCHANGED stdout
                           ELSE /\ pc' = "done"
                                /\ stdout' = Append(stdout,
                                       << "Unrecognized token: ",
                                          print_token(source, tok) >>)
    /\ UNCHANGED << source, result, symbol, context, env, status, call,
                    tokens, sets, env_calls >>

\* A declaration step that also records the declared symbol in
\* context.variables, bound to the type node.
ParseDeclType_declares ==
    /\ pc = "decl_type"
    /\ \E r \in { lex(source, current_token.end, current_token) } :
       LET tok == r.token
           expected_type_symbol ==
               node_symbol_from_buffer(
                   Slice(source, tok.beginning, tok.beginning + token_length(tok)))
           got == environment_get(context.types, expected_type_symbol, result)
           type_node == [ node_allocate EXCEPT !.type_ = got.result.type_ ]
           var_decl ==
               node_add_child(
                   node_add_child(
                       [ node_allocate EXCEPT !.type_ = "NODE_TYPE_VARIABLE_DECLARATION" ],
                       type_node),
                   symbol[1])
       IN  /\ lex_start' = current_token.end
           /\ lex_calls' = lex_calls + 1
           /\ current_token' = tok
           /\ pc' = "done"
           /\ IF r.err.type_ # "ERROR_NONE"
              THEN /\ err' = r.err
                   /\ UNCHANGED << end_out, result, stdout, context >>
              ELSE /\ end_out' = tok.end
                   /\ IF token_length(tok) = 0
                      THEN /\ err' = r.err
                           /\ UNCHANGED << result, stdout, context >>
                      ELSE IF got.status = 0
                           THEN /\ err' = error_prep(r.err, "ERROR_TYPE", STR_INVALID_TYPE)
                                /\ result' = got.result
                                /\ stdout' = Append(stdout,
                                       << "INVALID TYPE: ",
                                          expected_type_symbol.value.symbol[1] >>)
                                /\ UNCHANGED context
                           ELSE /\ err' = ok
                                /\ result' = var_decl
                                /\ context' =
                                       [ context EXCEPT !.variables =
                                           environment_set(context.variables,
                                                           symbol[1], type_node).env ]
                                /\ UNCHANGED stdout
    /\ UNCHANGED << source, symbol, env, status, call,
                    tokens, sets, env_calls >>

\* The declaration: the type name after ':' is looked up in context.types.
ParseDeclType ==
    /\ pc = "decl_type"
    /\ \E r \in { lex(source, current_token.end, current_token) } :
       LET tok == r.token
           expected_type_symbol ==
               node_symbol_from_buffer(
                   Slice(source, tok.beginning, tok.beginning + token_length(tok)))
           got == environment_get(context.types, expected_type_symbol, result)
           type_node == [ node_allocate EXCEPT !.type_ = got.result.type_ ]
           var_decl ==
               node_add_child(
                   node_add_child(
                       [ node_allocate EXCEPT !.type_ = "NODE_TYPE_VARIABLE_DECLARATION" ],
                       type_node),
                   symbol[1])
       IN  /\ lex_start' = current_token.end
           /\ lex_calls' = lex_calls + 1
           /\ current_token' = tok
           /\ pc' = "done"
           /\ IF r.err.type_ # "ERROR_NONE"
              THEN /\ err' = r.err
                   /\ UNCHANGED << end_out, result, stdout >>
              ELSE /\ end_out' = tok.end
                   /\ IF token_length(tok) = 0
                      THEN /\ err' = r.err
                           /\ UNCHANGED << result, stdout >>
                      ELSE IF got.status = 0
                           THEN /\ err' = error_prep(r.err, "ERROR_TYPE", STR_INVALID_TYPE)
                                /\ result' = got.result
                                /\ stdout' = Append(stdout,
                                       << "INVALID TYPE: ",
                                          expected_type_symbol.value.symbol[1] >>)
                           ELSE /\ err' = ok
                                /\ result' = var_decl
                                /\ UNCHANGED stdout
    /\ UNCHANGED << source, symbol, context, env, status, call,
                    tokens, sets, env_calls >>

Next ==
    \/ ParseEnter(ParseBuffers)
    \/ ParseLoop
    \/ ParseLookahead
    \/ ParseSymbolNext
    \/ ParseDeclType

Spec == Init /\ [][Next]_vars

\* The same program on the shorter buffers.  parse_expr is straight-line
\* code on one thread, so a step that can be taken is taken.
FairNext ==
    \/ ParseEnter(FairBuffers)
    \/ ParseLoop
    \/ ParseLookahead
    \/ ParseSymbolNext
    \/ ParseDeclType

FairSpec == Init /\ [][FairNext]_vars /\ WF_vars(FairNext)

(***************************************************************************)
(* The claims about parse_expr, checked under Spec (C10 under FairSpec).   *)
(***************************************************************************)
\* The first three tokens of the buffer, as lex yields them from offset 0.
Tok1 == lex(source, 0, Token(0, 0)).token
Tok2 == lex(source, Tok1.end, Tok1).token
Tok3 == lex(source, Tok2.end, Tok2).token
Tok4 == lex(source, Tok3.end, Tok3).token

HasToken(t) == t.end > t.beginning
TokBytes(t) == Slice(source, t.beginning, t.end)
IsIntegerLiteral(t) == parse_integer(source, t, node_allocate).status # 0

\* The children of a node, in order.
RECURSIVE Siblings(_)
Siblings(link) ==
    IF link = None THEN << >> ELSE << link[1] >> \o Siblings(link[1].next_child)
ChildList(node) == Siblings(node.children)

\* The values context.types binds to the symbol whose text is `text`.
TypeValues(text) ==
    LET bs == BindingList(context.types.bind)
    IN  { bs[i].value : i \in { j \in 1..Len(bs) : bs[j].id = node_symbol(text) } }

\* The buffer starts: symbol, ':', a third token.
DeclarationForm ==
    /\ HasToken(Tok1) /\ ~IsIntegerLiteral(Tok1)
    /\ HasToken(Tok2) /\ TokBytes(Tok2) = STR_COLON
    /\ HasToken(Tok3)

\* result is VariableDeclaration(type node, Symbol(text)) for a type bound to T.
IsDeclarationOf(node, text, T) ==
    /\ node.type_ = "NODE_TYPE_VARIABLE_DECLARATION"
    /\ LET kids == ChildList(node)
       IN  /\ Len(kids) = 2
           /\ kids[1].children = None
           /\ \E v \in TypeValues(T) : kids[1].type_ = v.type_
           /\ kids[2].type_ = "NODE_TYPE_SYMBOL"
           /\ kids[2].value.symbol = Some(text)

\* C1 as stated: on a buffer symbol S, ':', bound type name T, parse_expr
\* returns no error, end at the end of T, and result is a VariableDeclaration
\* whose children are a childless type node with the bound value's tag and a
\* Symbol whose text is the bytes of S, whatever follows T.
C1_AsStated ==
    (pc = "done" /\ DeclarationForm /\ TypeValues(from_utf8_lossy(TokBytes(Tok3))) # {})
        => /\ err.type_ = "ERROR_NONE"
           /\ end_out = Tok3.end
           /\ IsDeclarationOf(result, TokBytes(Tok1), from_utf8_lossy(TokBytes(Tok3)))

\* C1 amended: the same, with the Symbol's text being S decoded by
\* String::from_utf8_lossy (S itself whenever S is valid UTF-8).
C1_Declaration ==
    (pc = "done" /\ DeclarationForm /\ TypeValues(from_utf8_lossy(TokBytes(Tok3))) # {})
        => /\ err = ok
           /\ end_out = Tok3.end
           /\ IsDeclarationOf(result, from_utf8_lossy(TokBytes(Tok1)),
                              from_utf8_lossy(TokBytes(Tok3)))
           /\ (str_from_utf8(TokBytes(Tok1)) # None
                 => ChildList(result)[2].value.symbol = Some(TokBytes(Tok1)))

\* A declaration was parsed although another token follows the type name.
C1_Witness ==
    /\ pc = "done" /\ DeclarationForm
    /\ TypeValues(from_utf8_lossy(TokBytes(Tok3))) # {}
    /\ HasToken(Tok4)
    /\ result.type_ = "NODE_TYPE_VARIABLE_DECLARATION"

\* `text` occurs in `message`.
Occurs(text, message) ==
    \E k \in 0..(Len(message) - Len(text)) :
        SubSeq(message, k + 1, k + Len(text)) = text

\* C2 as stated: on a buffer symbol, ':', unbound type name T, parse_expr
\* returns a Type error whose message text names T, and result is no
\* VariableDeclaration.
C2_AsStated ==
    (pc = "done" /\ DeclarationForm /\ TypeValues(from_utf8_lossy(TokBytes(Tok3))) = {})
        => /\ err.type_ = "ERROR_TYPE"
           /\ err.msg # None
           /\ Occurs(from_utf8_lossy(TokBytes(Tok3)), err.msg[1])
           /\ result.type_ # "NODE_TYPE_VARIABLE_DECLARATION"

\* C3 as stated: on a buffer holding one token, not an integer literal,
\* parse_expr returns no error and result is the Symbol of that token.
C3_AsStated ==
    (pc = "done" /\ HasToken(Tok1) /\ ~IsIntegerLiteral(Tok1) /\ ~HasToken(Tok2))
        => /\ err.type_ = "ERROR_NONE"
           /\ result.type_ = "NODE_TYPE_SYMBOL"
           /\ result.value.symbol = Some(from_utf8_lossy(TokBytes(Tok1)))

\* parse_expr returned through its "Unrecognized token" path: a symbol was
\* read and the token after it is neither empty nor ':'.
UnrecognizedPath ==
    /\ pc = "done"
    /\ stdout # << >>
    /\ stdout[Len(stdout)][1] = "Unrecognized token: "

\* C4 as stated: the unrecognized-token path returns a Syntax error, never
\* the kind None.
C4_AsStated == UnrecognizedPath => err.type_ = "ERROR_SYNTAX"

\* C10: parse_expr terminates; each lex call gets a cursor that is at least
\* the previous one and at most len(source), none returns an Arguments
\* error, and every token span lies inside the buffer.
C10_CursorBounded ==
    /\ <>(pc = "done")
    /\ [][lex_start' >= lex_start]_vars
    /\ [](/\ lex_start <= Len(source)
          /\ err.type_ # "ERROR_ARGUMENTS"
          /\ current_token.beginning <= current_token.end
          /\ current_token.end <= Len(source)
          /\ end_out <= Len(source))

\* parse_expr returned after five lex calls, the last ones at the end of the buffer.
C10_Witness == pc = "done" /\ lex_calls >= 5 /\ lex_start = Len(source)

\* C11: parse_expr leaves the parsing context as parse_context_create built
\* it, before the call, at every step of it and after every return: types
\* holds the one binding "integer" -> Integer(0) and variables holds none,
\* and neither has a parent.
C11_ContextUnchanged ==
    /\ context.types =
           [ parent |-> None,
             bind   |-> Some(Binding(node_symbol(STR_INTEGER),
                                     node_integer(I64Zero), None)) ]
    /\ context.variables = [ parent |-> None, bind |-> None ]

\* parse_expr has returned a variable declaration without an error.
C11_Witness ==
    /\ pc = "done"
    /\ err.type_ = "ERROR_NONE"
    /\ result.type_ = "NODE_TYPE_VARIABLE_DECLARATION"
    /\ DeclarationForm

(***************************************************************************)
(* The tokenizer on its own: lex from any start, then, as parse_expr does, *)
(* from the end of the token it returned.                                  *)
(***************************************************************************)
LexBytes == { 32, 13, 10, 44, 40, 41, 58, 0, 97, 98 }   \* " \r\n,():", 0, "ab"

RECURSIVE BytesUpTo(_)
BytesUpTo(n) ==
    IF n = 0
    THEN { << >> }
    ELSE LET shorter == BytesUpTo(n - 1)
         IN  shorter \cup { Append(p, b) : p \in shorter, b \in LexBytes }

LexBuffers == BytesUpTo(MaxLexLen)

\* lex(source, start, &mut token) on a fresh Token { beginning: 0, end: 0 }.
LexFirst ==
    /\ pc = "start"
    /\ \E s \in LexBuffers : \E start \in 0..(Len(s) + 1) :
       \E r \in { lex(s, start, current_token) } :
           /\ source' = s
           /\ lex_start' = start
           /\ current_token' = r.token
           /\ err' = r.err
           /\ tokens' = << r.token >>
    /\ lex_calls' = 1
    /\ pc' = "lexed"
    /\ UNCHANGED << end_out, result, symbol, context, stdout, env, status, call,
                    sets, env_calls >>

\* lex(source, current_token.end, &mut current_token) after a token.
LexAgain ==
    /\ pc = "lexed"
    /\ err.type_ = "ERROR_NONE"
    /\ token_length(current_token) # 0
    /\ \E r \in { lex(source, current_token.end, current_token) } :
           /\ lex_start' = current_token.end
           /\ current_token' = r.token
           /\ err' = r.err
           /\ tokens' = Append(tokens, r.token)
    /\ lex_calls' = lex_calls + 1
    /\ UNCHANGED << source, pc, end_out, result, symbol, context, stdout, env,
                    status, call, sets, env_calls >>

LexNext == LexFirst \/ LexAgain

LexSpec == Init /\ [][LexNext]_vars

\* The least member of a nonempty set of numbers.
Min(S) == CHOOSE m \in S : \A x \in S : m <= x

\* The reference tokenizer: the span that starts at the first byte at or
\* after start that is no whitespace, and is empty at the end of the buffer
\* or at a zero byte, one byte long at ',', '(', ')' or ':', and otherwise
\* runs up to the next delimiter, zero byte or end of the buffer.
RefToken(src, start) ==
    LET n == Len(src)
        b == Min({ i \in start..n : i = n \/ src[i + 1] \notin { 32, 13, 10 } })
    IN  IF b = n \/ src[b + 1] = 0
        THEN Token(b, b)
        ELSE IF src[b + 1] \in { 44, 40, 41, 58 }
             THEN Token(b, b + 1)
             ELSE Token(b, Min({ j \in (b + 1)..n :
                                   j = n \/ src[j + 1] \in { 32, 13, 10, 44, 40, 41, 58, 0 } }))

\* The buffer cut before its first zero byte.
BeforeZero(src) ==
    LET zs == { i \in 1..Len(src) : src[i] = 0 }
    IN  IF zs = {} THEN src ELSE SubSeq(src, 1, Min(zs) - 1)

\* C5: lex fails with an Arguments error exactly when start > len(source);
\* otherwise it returns no error and the reference tokenizer's span.  "a,b"
\* lexes as "a", ",", "b", and from any start up to a zero byte the span is
\* the one lex finds in the buffer that ends where the zero byte stands.
C5_LexIsReference ==
    pc = "lexed" =>
        /\ (err.type_ = "ERROR_ARGUMENTS") <=> (lex_start > Len(source))
        /\ lex_start <= Len(source) =>
              /\ err = ok
              /\ current_token = RefToken(source, lex_start)
        /\ lex_start <= Len(BeforeZero(source)) =>
              current_token = lex(BeforeZero(source), lex_start, Token(0, 0)).token
        /\ (source = << 97, 44, 98 >> /\ tokens[1].beginning = 0
                /\ err = ok /\ Len(tokens) >= 3) =>
              /\ Slice(source, tokens[1].beginning, tokens[1].end) = << 97 >>
              /\ Slice(source, tokens[2].beginning, tokens[2].end) = << 44 >>
              /\ Slice(source, tokens[3].beginning, tokens[3].end) = << 98 >>

\* "a,b" was lexed from offset 0 into three tokens.
C5_Witness ==
    /\ pc = "lexed"
    /\ source = << 97, 44, 98 >>
    /\ Len(tokens) = 3
    /\ tokens[1].beginning = 0
    /\ current_token = Token(2, 3)

(***************************************************************************)
(* parse_integer on its own, on one span of one buffer.                    *)
(***************************************************************************)
IntBytes == { 48, 55, 57, 43, 45, 97, 255 }      \* "079+-a" and 0xFF

RECURSIVE IntBytesUpTo(_)
IntBytesUpTo(n) ==
    IF n = 0
    THEN { << >> }
    ELSE LET shorter == IntBytesUpTo(n - 1)
         IN  shorter \cup { Append(p, b) : p \in shorter, b \in IntBytes }

\* The decimal digits of a magnitude as ASCII bytes.
Ascii(mag) == [ i \in 1..Len(mag) |-> mag[i] + 48 ]

\* Literals around the ends of the i64 range.
LongLiterals ==
    { Ascii(I64MaxMag),                          \* "9223372036854775807"
      << 43 >> \o Ascii(I64MaxMag),              \* "+9223372036854775807"
      << 48 >> \o Ascii(I64MaxMag),              \* "09223372036854775807"
      Ascii(I64MinMag),                          \* "9223372036854775808"
      << 45 >> \o Ascii(I64MaxMag),              \* "-9223372036854775807"
      << 45 >> \o Ascii(I64MinMag),              \* "-9223372036854775808"
      << 45 >> \o Ascii(I64MaxMag) \o << 48 >>,  \* "-92233720368547758070"
      Ascii(I64MaxMag) \o << 97 >> }             \* "9223372036854775807a"

IntBuffers == IntBytesUpTo(MaxTokLen) \cup LongLiterals

\* parse_integer(source, &token, &mut node) on a node fresh from node_allocate.
ParseIntegerCall ==
    /\ pc = "start"
    /\ \E s \in IntBuffers :
       \E b \in { 0, 1 } : \E e \in { 0, Len(s) - 1, Len(s), Len(s) + 1 } :
       \E r \in { parse_integer(s, Token(b, e), result) } :
           /\ e >= 0
           /\ source' = s
           /\ current_token' = Token(b, e)
           /\ status' = r.status
           /\ result' = r.node
    /\ pc' = "parsed_integer"
    /\ UNCHANGED << end_out, err, symbol, context, stdout, lex_start, lex_calls,
                    env, call, tokens, sets, env_calls >>

IntSpec == Init /\ [][ParseIntegerCall]_vars

\* The token parse_integer was given, or << >> when the span is empty or
\* does not lie inside the buffer.
IntToken ==
    IF current_token.end <= current_token.beginning \/ current_token.end > Len(source)
    THEN << >>
    ELSE Slice(source, current_token.beginning, current_token.end)

\* The numeric literal rule of the claim: "0" is zero; an optional sign and
\* one or more digits is its value, clamped to the i64 range, unless that
\* value is zero; anything else is no integer.  None stands for a failure.
NumericRule(t) ==
    IF t = << 48 >>
    THEN Some(I64Zero)
    ELSE LET v == str_parse_i64_saturating(t)
         IN  IF v = None \/ v = Some(I64Zero) THEN None ELSE v

\* C9 as stated: parse_integer succeeds exactly on the tokens of the numeric
\* literal rule and yields the rule's value, clamped on overflow.
C9_AsStated ==
    pc = "parsed_integer" =>
        IF NumericRule(IntToken) = None
        THEN status = 0 /\ result = node_allocate
        ELSE /\ status = 1
             /\ result = node_integer(NumericRule(IntToken)[1])

(***************************************************************************)
(* The environment calls on their own: at most MaxOps calls of             *)
(* environment_set, environment_get and environment_create(Some(env)).     *)
(***************************************************************************)
\* A composite node: a VariableDeclaration without children.
VarDeclNode == [ node_allocate EXCEPT !.type_ = "NODE_TYPE_VARIABLE_DECLARATION" ]

EnvIds ==
    { node_allocate,
      node_integer(I64(FALSE, << 1 >>)),
      node_symbol(<< 65 >>),
      node_symbol(STR_INTEGER),
      VarDeclNode }

EnvValues ==
    { node_allocate, node_integer(I64Zero), node_integer(I64(FALSE, << 7 >>)) }

EnvironmentSet ==
    /\ pc = "start"
    /\ env_calls < MaxOps
    /\ \E id \in EnvIds : \E value \in EnvValues :
       \E r \in { environment_set(env, id, value) } :
           /\ env' = r.env
           /\ status' = r.status
           /\ call' = [ fn |-> "environment_set", id |-> id, value |-> value,
                        env_before |-> env, result_before |-> result ]
           /\ sets' = IF r.status = 0
                      THEN sets
                      ELSE Append(sets, [ id |-> id, value |-> value ])
    /\ env_calls' = env_calls + 1
    /\ UNCHANGED << source, pc, current_token, end_out, result, err, symbol,
                    context, stdout, lex_start, lex_calls, tokens >>

EnvironmentGet ==
    /\ pc = "start"
    /\ env_calls < MaxOps
    /\ \E id \in EnvIds :
       \E r \in { environment_get(env, id, result) } :
           /\ status' = r.status
           /\ result' = r.result
           /\ call' = [ fn |-> "environment_get", id |-> id, value |-> node_allocate,
                        env_before |-> env, result_before |-> result ]
    /\ env_calls' = env_calls + 1
    /\ UNCHANGED << source, pc, current_token, end_out, err, symbol, context,
                    stdout, lex_start, lex_calls, env, tokens, sets >>

\* environment_create(Some(env)): a new, empty environment whose parent is env.
EnvironmentCreate ==
    /\ pc = "start"
    /\ env_calls < MaxOps
    /\ env' = environment_create(Some(env))
    /\ call' = [ fn |-> "environment_create", id |-> node_allocate,
                 value |-> node_allocate, env_before |-> env,
                 result_before |-> result ]
    /\ sets' = << >>
    /\ env_calls' = env_calls + 1
    /\ UNCHANGED << source, pc, current_token, end_out, result, err, symbol,
                    context, stdout, lex_start, lex_calls, status, tokens >>

EnvNext == EnvironmentSet \/ EnvironmentGet \/ EnvironmentCreate

EnvSpec == Init /\ [][EnvNext]_vars

\* The positions of the bindings of bs whose id node_compare finds equal to id.
Matches(bs, id) ==
    { i \in 1..Len(bs) : node_compare(Some(bs[i].id), Some(id)) # 0 }

\* C6 as stated: for every id node that was set in env, env holds exactly
\* one binding with that id, and its value is the one of the latest set.
C6_AsStated ==
    \A k \in 1..Len(sets) :
        LET bs   == BindingList(env.bind)
            id   == sets[k].id
            same == { i \in 1..Len(bs) : bs[i].id = id }
            last == Min({ j \in 1..Len(sets) :
                            /\ sets[j].id = id
                            /\ \A m \in (j + 1)..Len(sets) : sets[m].id # id })
        IN  /\ Cardinality(same) = 1
            /\ \A i \in same : bs[i].value = sets[last].value

\* C7: environment_get leaves env alone; it returns 1 and a copy of the
\* value of the first binding of env's own list whose id compares equal to
\* id, and returns 0 with *result as it was when the own list has no such
\* binding, whatever the parent binds.
C7_GetOwnList ==
    call.fn = "environment_get" =>
        LET bs   == BindingList(call.env_before.bind)
            hits == Matches(bs, call.id)
        IN  /\ env = call.env_before
            /\ IF hits = {}
               THEN status = 0 /\ result = call.result_before
               ELSE status = 1 /\ result = bs[Min(hits)].value

\* A get missed although the parent environment binds the id.
C7_Witness ==
    /\ call.fn = "environment_get"
    /\ status = 0
    /\ env.parent # None
    /\ Matches(BindingList(env.parent[1].bind), call.id) # {}

\* C8: environment_set returns 0 and leaves env alone when id and value are
\* both None nodes; else, when a binding's id compares equal to id, it
\* returns 2 and changes the value of the first such binding only; else it
\* returns 1 and puts the new binding before the unchanged old ones.
C8_SetFrame ==
    call.fn = "environment_set" =>
        LET before == BindingList(call.env_before.bind)
            after  == BindingList(env.bind)
            hits   == Matches(before, call.id)
        IN  /\ env.parent = call.env_before.parent
            /\ IF nonep(call.id) /\ nonep(call.value)
               THEN status = 0 /\ env = call.env_before
               ELSE IF hits # {}
                    THEN /\ status = 2
                         /\ Len(after) = Len(before)
                         /\ \A i \in 1..Len(before) :
                              /\ after[i].id = before[i].id
                              /\ after[i].value = IF i = Min(hits)
                                                  THEN call.value
                                                  ELSE before[i].value
                    ELSE /\ status = 1
                         /\ after = << [ id |-> call.id, value |-> call.value ] >>
                                    \o before

\* A set overwrote the value of a binding that is not the first of the list.
C8_Witness ==
    /\ call.fn = "environment_set"
    /\ status = 2
    /\ Len(BindingList(env.bind)) >= 2
    /\ Min(Matches(BindingList(call.env_before.bind), call.id)) >= 2
    /\ env # call.env_before

====
